---- MODULE Spec2Model ----
(***************************************************************************)
(* The timed exam-taking session of the student portal:                    *)
(* TakeExamPage (frontend/app/dashboard/student/exams/[id]/page.tsx).      *)
(*                                                                         *)
(* The page is a React function component.  Its state is the useState      *)
(* cells; every handler below is one event of the single-threaded UI event *)
(* loop, taken together with the re-render and the effects React runs for  *)
(* the state it set (React 18 batches the updates of one event into one    *)
(* render).  Two things of React's semantics decide the behaviour and are  *)
(* modelled explicitly:                                                    *)
(*   - the interval callback of the timer effect is created by the render  *)
(*     in which timeLeft last changed (the effect's dependency list is     *)
(*     [timeLeft]) and keeps THAT render's submitting, answers and exam in *)
(*     its closure; the functional updater of setTimeLeft alone sees the   *)
(*     current timeLeft;                                                   *)
(*   - the updater passed to setTimeLeft has side effects (clearInterval,  *)
(*     handleAutoSubmit).  Spec invokes it once per update; React may      *)
(*     invoke an updater twice (Strict Mode in development builds), which  *)
(*     SpecStrictMode adds.                                                *)
(***************************************************************************)
EXTENDS Integers, Sequences, FiniteSets, TLC

\* ---------------------------------------------------------------- bounds
MaxEdits == 2
MaxFailures == 1

\* ------------------------------------------------------ program constants
SecondsPerMinute == 60
ForbiddenStatus == 403

\* ------------------------------------------------------------- null / some
\* A nullable value (T | null, or an absent key of a Record) is <<>> or <<v>>.
Null == <<>>
Some(v) == <<v>>
Val(o) == o[1]

Max(a, b) == IF a >= b THEN a ELSE b
Min(a, b) == IF a <= b THEN a ELSE b

\* ------------------------------------------------------- parseQuestionText
\* A string is the sequence of its characters.
NL == "\n"
Marker == <<NL, NL, "O", "p", "t", "i", "o", "n", "s", ":", NL>>
Bullet == <<"-", " ">>
\* The characters String.prototype.trim removes.
Whitespace == {" ", NL, "\t", "\r"}

\* sep occurs in s at position i.
OccursAt(s, sep, i) ==
    /\ i + Len(sep) - 1 <= Len(s)
    /\ \A k \in 1..Len(sep) : s[i + k - 1] = sep[k]

\* String.prototype.indexOf, 1-based; 0 when sep does not occur.
IndexOf(s, sep) ==
    LET at == {i \in 1..Len(s) : OccursAt(s, sep, i)}
    IN  IF at = {} THEN 0 ELSE CHOOSE i \in at : \A j \in at : i <= j

\* String.prototype.split with a non-empty separator: cuts at every occurrence,
\* scanning from the left.
RECURSIVE Split(_, _)
Split(s, sep) ==
    LET i == IndexOf(s, sep)
    IN  IF i = 0
        THEN <<s>>
        ELSE <<SubSeq(s, 1, i - 1)>> \o Split(SubSeq(s, i + Len(sep), Len(s)), sep)

\* String.prototype.trim
Trim(s) ==
    LET keep == {i \in 1..Len(s) : s[i] \notin Whitespace}
    IN  IF keep = {}
        THEN <<>>
        ELSE SubSeq(s, CHOOSE i \in keep : \A j \in keep : i <= j,
                       CHOOSE i \in keep : \A j \in keep : i >= j)

\* String.prototype.startsWith
StartsWith(s, prefix) == OccursAt(s, prefix, 1)

\* Mutant of StripBullet: only the dash is removed.
StripDash(line) == SubSeq(line, 2, Len(line))

\* line.substring(2)
StripBullet(line) == SubSeq(line, 3, Len(line))

IsOptionLine(line) == StartsWith(line, Bullet)

\* optionsBlock.split("\n").map(trim).filter(startsWith("- ")).map(substring(2))
ParseOptions(optionsBlock) ==
    LET lines == Split(optionsBlock, <<NL>>)
        trimmed == [k \in 1..Len(lines) |-> Trim(lines[k])]
        kept == SelectSeq(trimmed, IsOptionLine)
    IN  [k \in 1..Len(kept) |-> StripBullet(kept[k])]

\* Mutant of parseQuestionText: with no option found the prompt part is returned.
parseQuestionTextKeepsPrompt(text) ==
    LET parts == Split(text, Marker)
    IN  IF Len(parts) < 2
        THEN [isMCQ |-> FALSE, questionText |-> text, options |-> <<>>]
        ELSE LET options == ParseOptions(parts[2])
             IN  [isMCQ |-> Len(options) # 0, questionText |-> parts[1],
                  options |-> options]

parseQuestionText(text) ==
    LET parts == Split(text, Marker)
    IN  IF Len(parts) < 2
        THEN [isMCQ |-> FALSE, questionText |-> text, options |-> <<>>]
        ELSE LET questionText == parts[1]
                 options == ParseOptions(parts[2])
             IN  IF Len(options) = 0
                 THEN [isMCQ |-> FALSE, questionText |-> text, options |-> <<>>]
                 ELSE [isMCQ |-> TRUE, questionText |-> questionText,
                       options |-> options]

RECURSIVE OptionLines(_)
OptionLines(os) ==
    IF os = <<>> THEN <<>>
    ELSE Bullet \o Head(os) \o (IF Len(os) > 1 THEN <<NL>> ELSE <<>>)
         \o OptionLines(Tail(os))

\* prompt + "\n\nOptions:\n" + one "- option" line per option
Compose(prompt, os) == prompt \o Marker \o OptionLines(os)

\* ------------------------------------------------------------------ inputs
Modes == {"online", "offline"}
ExamId == 7
\* Question ids as the service assigns them: distinct, and not the positions.
QuestionIdOf(i) == 10 + i
QuestionCounts == {1, 2}
QuestionIds == {QuestionIdOf(i) : i \in 1..2}
\* Question.text: the first question is free text, the second is an MCQ as the
\* teacher's form composes it.
OptionX == <<"X">>
OptionY == <<"Y">>
QuestionOptions == <<OptionX, OptionY>>
QuestionTextOf(i) ==
    IF i = 1 THEN <<"Q", "1">> ELSE Compose(<<"Q", "2">>, QuestionOptions)
QuestionList(n) == [i \in 1..n |-> [id |-> QuestionIdOf(i), text |-> QuestionTextOf(i)]]

\* duration_minutes of the exams offered: none (already expired) or one minute.
Durations == {0, 1}

\* interface Exam: the exam definitions the Exam Service may answer with.
Exams ==
    {[id |-> ExamId, mode |-> m, duration_minutes |-> d, questions |-> QuestionList(n)] :
        m \in Modes, d \in Durations, n \in QuestionCounts}

\* What the student can type into the textarea, and the files they can pick.
Hello == <<"h", "e", "l", "l", "o">>
Texts == {<<>>, Hello}
\* Files are interchangeable: the first one attached in a session is called f1, a
\* different one picked later f2.
FileSelections == {<<>>, <<"f1">>, <<"f2">>}
BulkSelections == {<<>>, <<"p1">>, <<"p1", "p2">>}

\* The confirm() dialogs.  confirm() blocks the page's script: no timer callback,
\* response handler or other event runs between the click and the handler's
\* continuation with the answer.
NoDialog == Null
ConfirmSubmit == "Are you sure you want to submit your exam?"
ConfirmBulk == "Confirm submission of pages?"
Answered(text, answer) == Some([text |-> text, answer |-> answer])

\* The texts of the alert() dialogs.
TimeUpAlert == "Time is up! Your exam is being submitted automatically."
SubmissionFailedAlert == "Submission failed: "
NoSheetAlert == "Please upload at least one answer sheet."

\* The failed answers of the Exam Service: status and error.response.data.detail.
LoadStatuses == {ForbiddenStatus, 500}
LoadDetails == {Null, Some(""), Some("Not enrolled")}

VARIABLES
    mounted,            \* the page component is mounted
    fetching,           \* the GET /exams/{id} of fetchExam is in flight
    exam,               \* useState<Exam | null>
    loading,            \* useState(true)
    error,              \* useState<string | null>
    submitting,         \* useState(false)
    currentQuestionIdx, \* useState(0)
    timeLeft,           \* useState<number | null>
    answers,            \* useState<Record<number, {text, file}>>
    bulkFiles,          \* useState<File[]>
    timer,              \* the live setInterval of the timer effect, with its closure
    sent,               \* every submission request issued, in order
    pending,            \* the indices of sent that are still in flight
    navigated,          \* router.push("/dashboard/student/results") was called
    failures,           \* failed submission responses so far (bounded)
    edits,              \* draft mutations so far (bounded)
    succeeded,          \* the indices of sent whose response was a success
    alerts,             \* the alert() dialogs shown, in order
    loadResponse,       \* the failed response of the Exam Service, once received
    dialog,             \* the confirm() dialog a handler is in, with its answer
    lastSelected,       \* per question, the option of the last radio input chosen
    lastPicked,         \* per question, the file of the last file input change
    parseText,          \* the question text handed to parseQuestionText
    parsed,             \* the ParsedQuestion it returned, once it has
    layoutMounted,      \* DashboardLayout is mounted
    pathname,           \* window.location.pathname
    token,              \* localStorage holds a token
    role,               \* DashboardLayout's role state
    mounts,             \* the mounts of DashboardLayout so far (bounded)
    mePending,          \* the mounts whose GET /me is in flight
    meSucceeded,        \* the mounts whose GET /me has succeeded
    meFailed            \* the mounts whose GET /me has failed

vars == <<mounted, fetching, exam, loading, error, submitting, currentQuestionIdx,
          timeLeft, answers, bulkFiles, timer, sent, pending, navigated, failures,
          edits, succeeded, alerts, loadResponse, dialog, lastSelected, lastPicked,
          parseText, parsed, layoutMounted, pathname, token, role, mounts,
          mePending, meSucceeded, meFailed>>

page == <<mounted, fetching, exam, loading, error, submitting, currentQuestionIdx,
          timeLeft, answers, bulkFiles, timer, sent, pending, navigated, failures,
          edits, succeeded, alerts, loadResponse, dialog, lastSelected, lastPicked>>
parser == <<parseText, parsed>>
layout == <<layoutMounted, pathname, token, role, mounts, mePending, meSucceeded,
            meFailed>>
ui == <<exam, loading, error, submitting, currentQuestionIdx, timeLeft, answers, bulkFiles>>
net == <<sent, pending, navigated, failures>>

\* ------------------------------------------------------------- pure helpers

\* answers[q.id]?.text || ""
AnswerText(ans, qid) ==
    IF ans[qid] = Null THEN <<>>
    ELSE IF Val(ans[qid]).text = Null THEN <<>>
    ELSE Val(Val(ans[qid]).text)

\* Mutant of PayloadAnswers: entries only for the questions that have a draft.
FilteredAnswers(ex, ans) ==
    LET keep == SelectSeq(ex.questions, LAMBDA q : ans[q.id] # Null)
    IN  [i \in 1..Len(keep) |->
            [question_id |-> keep[i].id,
             answer_text |-> AnswerText(ans, keep[i].id),
             answer_file_path |-> Null]]

\* exam.questions.map(q => ({question_id, answer_text, answer_file_path: null}))
PayloadAnswers(ex, ans) ==
    [i \in 1..Len(ex.questions) |->
        [question_id |-> ex.questions[i].id,
         answer_text |-> AnswerText(ans, ex.questions[i].id),
         answer_file_path |-> Null]]

\* The two endpoints of the Submission Service (the exam id of the bulk path is fixed).
OnlineEndpoint == "/submissions/submit"
BulkEndpoint == "/submissions/submit-bulk-offline"

\* The request handleSubmit posts to /submissions/submit.
OnlineRequest(auto, ex, ans) ==
    [endpoint |-> OnlineEndpoint, auto |-> auto, exam_id |-> ex.id,
     answers |-> PayloadAnswers(ex, ans), files |-> <<>>]

\* The request handleBulkSubmit posts to /submissions/{examId}/submit-bulk-offline.
BulkRequest(files) ==
    [endpoint |-> BulkEndpoint, auto |-> FALSE, exam_id |-> ExamId,
     answers |-> <<>>, files |-> files]

\* Mutant of WithText: the draft is replaced, not spread.
WithTextOnly(ans, qid, text) == [ans EXCEPT ![qid] = Some([text |-> Some(text), file |-> Null])]

\* {...prev[qId], text} and {...prev[qId], file}
EmptyDraft == [text |-> Null, file |-> Null]
DraftOf(ans, qid) == IF ans[qid] = Null THEN EmptyDraft ELSE Val(ans[qid])
\* Mutant of WithFile: a file already attached is kept.
WithFileKeepsEarlier(ans, qid, file) ==
    [ans EXCEPT ![qid] = Some([DraftOf(ans, qid) EXCEPT
                                 !.file = IF @ = Null THEN Some(file) ELSE @])]
WithText(ans, qid, text) == [ans EXCEPT ![qid] = Some([DraftOf(ans, qid) EXCEPT !.text = Some(text)])]
WithFile(ans, qid, file) == [ans EXCEPT ![qid] = Some([DraftOf(ans, qid) EXCEPT !.file = Some(file)])]

\* Mutant of InitialTimeLeft: the minutes are not converted to seconds.
InitialTimeLeftInMinutes(e) == e.duration_minutes

\* setTimeLeft(examData.duration_minutes * 60)
InitialTimeLeft(e) == e.duration_minutes * SecondsPerMinute

\* The value the updater of setTimeLeft returns for a non-null prev.
NextTimeLeft(prev) == IF prev <= 1 THEN 0 ELSE prev - 1

\* The timer effect, run after a render in which timeLeft changed: the interval it
\* leaves installed (none when timeLeft is null or <= 0), with the render's closure.
TimerEffect(tl, sub, ans, ex) ==
    IF tl = Null \/ Val(tl) <= 0 THEN Null
    ELSE Some([submitting |-> sub, answers |-> ans, exam |-> ex])

\* What the page renders.
Rendered == mounted /\ ~loading /\ error = Null /\ exam # Null
isOffline == Val(exam).mode = "offline"
OnlineView == Rendered /\ ~isOffline
OfflineView == Rendered /\ isOffline
NumQuestions == Len(Val(exam).questions)
isLast == currentQuestionIdx = NumQuestions - 1
CurrentQuestionId == Val(exam).questions[currentQuestionIdx + 1].id
\* const { isMCQ, options } = parseQuestionText(question.text)
\* (parseQuestionText, tabulated once over the question texts of Exams)
ParsedQuestionTexts ==
    [t \in {QuestionTextOf(i) : i \in 1..2} |-> parseQuestionText(t)]
CurrentParsed == ParsedQuestionTexts[Val(exam).questions[currentQuestionIdx + 1].text]
Range(seq) == {seq[k] : k \in 1..Len(seq)}

\* ------------------------------------------------------------------- Init
PageInit ==
    /\ mounted = TRUE
    /\ fetching = TRUE
    /\ exam = Null
    /\ loading = TRUE
    /\ error = Null
    /\ submitting = FALSE
    /\ currentQuestionIdx = 0
    /\ timeLeft = Null
    /\ answers = [q \in QuestionIds |-> Null]
    /\ bulkFiles = <<>>
    /\ timer = Null
    /\ sent = <<>>
    /\ pending = {}
    /\ navigated = FALSE
    /\ failures = 0
    /\ edits = 0
    /\ succeeded = {}
    /\ alerts = <<>>
    /\ loadResponse = Null
    /\ dialog = NoDialog
    /\ lastSelected = [q \in QuestionIds |-> Null]
    /\ lastPicked = [q \in QuestionIds |-> Null]

ParserIdle ==
    /\ parseText = <<>>
    /\ parsed = Null

\* The browser is on the login page, outside the dashboard.
LoginPath == "/login"
LayoutIdle ==
    /\ layoutMounted = FALSE
    /\ pathname = LoginPath
    /\ role = Null
    /\ mounts = 0
    /\ mePending = {}
    /\ meSucceeded = {}
    /\ meFailed = {}

\* The page as it is mounted; no question text is being parsed.
Init ==
    /\ PageInit
    /\ ParserIdle
    /\ LayoutIdle
    /\ token = TRUE

\* ---------------------------------------------------------------- actions

\* Mutant of LoadSuccess: the finally branch with setLoading(false) is missing.
LoadSuccessKeepsLoading(e) ==
    /\ dialog = NoDialog
    /\ fetching
    /\ fetching' = FALSE
    /\ IF mounted
       THEN /\ exam' = Some(e)
            /\ timeLeft' = Some(InitialTimeLeft(e))
            /\ timer' = TimerEffect(timeLeft', submitting, answers, e)
       ELSE UNCHANGED <<exam, timeLeft, timer>>
    /\ UNCHANGED <<mounted, loading, error, submitting, currentQuestionIdx, answers,
                   bulkFiles, edits, succeeded, alerts, loadResponse>>
    /\ UNCHANGED net
    /\ UNCHANGED parser
    /\ UNCHANGED layout
    /\ UNCHANGED lastPicked
    /\ UNCHANGED <<dialog, lastSelected>>

\* fetchExam, try branch: the Exam Service answers with the exam.
LoadSuccess(e) ==
    /\ dialog = NoDialog
    /\ fetching
    /\ fetching' = FALSE
    /\ IF mounted
       THEN /\ exam' = Some(e)
            /\ timeLeft' = Some(InitialTimeLeft(e))
            /\ loading' = FALSE
            /\ timer' = TimerEffect(timeLeft', submitting, answers, e)
       ELSE UNCHANGED <<exam, timeLeft, loading, timer>>
    /\ UNCHANGED <<mounted, error, submitting, currentQuestionIdx, answers, bulkFiles,
                   edits, succeeded, alerts, loadResponse>>
    /\ UNCHANGED net
    /\ UNCHANGED parser
    /\ UNCHANGED layout
    /\ UNCHANGED lastPicked
    /\ UNCHANGED <<dialog, lastSelected>>

\* Mutant of LoadErrorMessage: the detail is shown whatever the status is.
LoadErrorMessageAnyStatus(status, detail) ==
    IF detail # Null /\ Val(detail) # "" THEN Val(detail) ELSE "Access Denied"

\* error.response.data.detail || "Access Denied", or the generic message.
LoadErrorMessage(status, detail) ==
    IF status = ForbiddenStatus
    THEN (IF detail # Null /\ Val(detail) # "" THEN Val(detail) ELSE "Access Denied")
    ELSE "Failed to load exam."

\* Mutant of LoadFailure: the catch branch also zeroes the countdown.
LoadFailureZeroesTimer(status, detail) ==
    /\ dialog = NoDialog
    /\ fetching
    /\ fetching' = FALSE
    /\ IF mounted
       THEN /\ error' = Some(LoadErrorMessage(status, detail))
            /\ loading' = FALSE
            /\ timeLeft' = Some(0)
       ELSE UNCHANGED <<error, loading, timeLeft>>
    /\ loadResponse' = Some([status |-> status, detail |-> detail])
    /\ UNCHANGED <<mounted, exam, submitting, currentQuestionIdx, answers,
                   bulkFiles, timer, edits, succeeded, alerts>>
    /\ UNCHANGED net
    /\ UNCHANGED parser
    /\ UNCHANGED layout
    /\ UNCHANGED lastPicked
    /\ UNCHANGED <<dialog, lastSelected>>

\* fetchExam, catch branch.
LoadFailure(status, detail) ==
    /\ dialog = NoDialog
    /\ fetching
    /\ fetching' = FALSE
    /\ IF mounted
       THEN /\ error' = Some(LoadErrorMessage(status, detail))
            /\ loading' = FALSE
       ELSE UNCHANGED <<error, loading>>
    /\ loadResponse' = Some([status |-> status, detail |-> detail])
    /\ UNCHANGED <<mounted, exam, submitting, currentQuestionIdx, timeLeft, answers,
                   bulkFiles, timer, edits, succeeded, alerts>>
    /\ UNCHANGED net
    /\ UNCHANGED parser
    /\ UNCHANGED layout
    /\ UNCHANGED lastPicked
    /\ UNCHANGED <<dialog, lastSelected>>

\* handleAutoSubmit called `calls` times from one interval callback: the requests it
\* issues.  It reads submitting, exam and answers from the callback's closure c.
AutoSubmitRequests(c, calls) ==
    IF c.submitting THEN <<>>
    ELSE [k \in 1..calls |-> OnlineRequest(TRUE, c.exam, c.answers)]

\* The interval callback: setTimeLeft(prev => ...).  calls is the number of times
\* React invokes the updater for this one update: 1, or 2 where React double-invokes
\* updater functions (Strict Mode in a development build).
Tick(calls) ==
    /\ dialog = NoDialog
    /\ mounted
    /\ timer # Null
    /\ LET prev == Val(timeLeft)
           c == Val(timer)
       IN  IF prev <= 1
           THEN LET reqs == AutoSubmitRequests(c, calls)
                IN  /\ timeLeft' = Some(NextTimeLeft(prev))
                    /\ sent' = sent \o reqs
                    /\ pending' = pending \cup (Len(sent) + 1 .. Len(sent) + Len(reqs))
                    /\ submitting' = (IF Len(reqs) > 0 THEN TRUE ELSE submitting)
                    /\ alerts' = alerts \o [k \in 1..Len(reqs) |-> TimeUpAlert]
                    /\ timer' = TimerEffect(timeLeft', submitting', answers, Val(exam))
           ELSE /\ timeLeft' = Some(NextTimeLeft(prev))
                /\ timer' = TimerEffect(timeLeft', submitting, answers, Val(exam))
                /\ UNCHANGED <<sent, pending, submitting, alerts>>
    /\ UNCHANGED <<mounted, fetching, exam, loading, error, currentQuestionIdx, answers,
                   bulkFiles, navigated, failures, edits, succeeded, loadResponse>>
    /\ UNCHANGED parser
    /\ UNCHANGED layout
    /\ UNCHANGED lastPicked
    /\ UNCHANGED <<dialog, lastSelected>>

\* Mutant of SelectOption: every radio input passes the first option.
SelectFirstOption(opt) ==
    /\ dialog = NoDialog
    /\ OnlineView
    /\ CurrentParsed.isMCQ
    /\ opt \in Range(CurrentParsed.options)
    /\ opt # AnswerText(answers, CurrentQuestionId)
    /\ edits < MaxEdits
    /\ answers' = WithText(answers, CurrentQuestionId, CurrentParsed.options[1])
    /\ lastSelected' = [lastSelected EXCEPT ![CurrentQuestionId] = Some(opt)]
    /\ edits' = edits + 1
    /\ UNCHANGED <<mounted, fetching, exam, loading, error, submitting, currentQuestionIdx,
                   timeLeft, bulkFiles, timer, succeeded, alerts, loadResponse, dialog>>
    /\ UNCHANGED net
    /\ UNCHANGED parser
    /\ UNCHANGED layout
    /\ UNCHANGED lastPicked

\* handleTextChange(opt), from the radio input of an option of the displayed MCQ;
\* the change event fires only for an option that is not the checked one.
SelectOption(opt) ==
    /\ dialog = NoDialog
    /\ OnlineView
    /\ CurrentParsed.isMCQ
    /\ opt \in Range(CurrentParsed.options)
    /\ opt # AnswerText(answers, CurrentQuestionId)
    /\ edits < MaxEdits
    /\ answers' = WithText(answers, CurrentQuestionId, opt)
    /\ lastSelected' = [lastSelected EXCEPT ![CurrentQuestionId] = Some(opt)]
    /\ edits' = edits + 1
    /\ UNCHANGED <<mounted, fetching, exam, loading, error, submitting, currentQuestionIdx,
                   timeLeft, bulkFiles, timer, succeeded, alerts, loadResponse, dialog>>
    /\ UNCHANGED net
    /\ UNCHANGED parser
    /\ UNCHANGED layout
    /\ UNCHANGED lastPicked

\* handleTextChange, from the textarea shown for a question that is not an MCQ;
\* the change event fires only when the value differs from the one displayed.
TextChange(text) ==
    /\ dialog = NoDialog
    /\ OnlineView
    /\ ~CurrentParsed.isMCQ
    /\ text # AnswerText(answers, CurrentQuestionId)
    /\ edits < MaxEdits
    /\ answers' = WithText(answers, CurrentQuestionId, text)
    /\ edits' = edits + 1
    /\ UNCHANGED <<mounted, fetching, exam, loading, error, submitting, currentQuestionIdx,
                   timeLeft, bulkFiles, timer, succeeded, alerts, loadResponse>>
    /\ UNCHANGED net
    /\ UNCHANGED parser
    /\ UNCHANGED layout
    /\ UNCHANGED lastPicked
    /\ UNCHANGED <<dialog, lastSelected>>

\* Some draft of the session has a file attached.
SomeFileAttached == \E q \in QuestionIds : DraftOf(answers, q).file # Null

\* handleFileChange, from the per-question upload input; files is e.target.files.
FileChange(files) ==
    /\ dialog = NoDialog
    /\ OnlineView
    /\ edits < MaxEdits
    /\ IF Len(files) = 0
       THEN UNCHANGED <<answers, edits, lastPicked>>
       ELSE /\ files[1] = "f2" => SomeFileAttached
            /\ answers' = WithFile(answers, CurrentQuestionId, files[1])
            /\ lastPicked' = [lastPicked EXCEPT ![CurrentQuestionId] = Some(files[1])]
            /\ edits' = edits + 1
    /\ UNCHANGED <<mounted, fetching, exam, loading, error, submitting, currentQuestionIdx,
                   timeLeft, bulkFiles, timer, succeeded, alerts, loadResponse>>
    /\ UNCHANGED net
    /\ UNCHANGED parser
    /\ UNCHANGED layout
    /\ UNCHANGED <<dialog, lastSelected>>

\* The Previous button.
Previous ==
    /\ dialog = NoDialog
    /\ OnlineView
    /\ currentQuestionIdx # 0
    /\ currentQuestionIdx' = Max(0, currentQuestionIdx - 1)
    /\ UNCHANGED <<mounted, fetching, exam, loading, error, submitting, timeLeft, answers,
                   bulkFiles, timer, edits, succeeded, alerts, loadResponse>>
    /\ UNCHANGED net
    /\ UNCHANGED parser
    /\ UNCHANGED layout
    /\ UNCHANGED lastPicked
    /\ UNCHANGED <<dialog, lastSelected>>

\* Mutant of NextQuestion: the Next button is always shown and does not clamp.
NextQuestionUnclamped ==
    /\ dialog = NoDialog
    /\ OnlineView
    /\ currentQuestionIdx' = currentQuestionIdx + 1
    /\ UNCHANGED <<mounted, fetching, exam, loading, error, submitting, timeLeft, answers,
                   bulkFiles, timer, edits, succeeded, alerts, loadResponse>>
    /\ UNCHANGED net
    /\ UNCHANGED parser
    /\ UNCHANGED layout
    /\ UNCHANGED lastPicked
    /\ UNCHANGED <<dialog, lastSelected>>

\* The Next button, shown instead of Submit while the last question is not displayed.
NextQuestion ==
    /\ dialog = NoDialog
    /\ OnlineView
    /\ ~isLast
    /\ currentQuestionIdx' = Min(NumQuestions - 1, currentQuestionIdx + 1)
    /\ UNCHANGED <<mounted, fetching, exam, loading, error, submitting, timeLeft, answers,
                   bulkFiles, timer, edits, succeeded, alerts, loadResponse>>
    /\ UNCHANGED net
    /\ UNCHANGED parser
    /\ UNCHANGED layout
    /\ UNCHANGED lastPicked
    /\ UNCHANGED <<dialog, lastSelected>>

\* Mutant of SubmitClick: the Submit Exam button is shown on every question.
SubmitClickAnyQuestion(confirmed) ==
    /\ dialog = NoDialog
    /\ OnlineView
    /\ ~submitting
    /\ dialog' = Answered(ConfirmSubmit, confirmed)
    /\ UNCHANGED <<mounted, fetching, timer, edits, succeeded, alerts, loadResponse,
                   lastSelected>>
    /\ UNCHANGED ui
    /\ UNCHANGED net
    /\ UNCHANGED parser
    /\ UNCHANGED layout
    /\ UNCHANGED lastPicked

\* The Submit Exam button, shown on the last question: handleSubmit(false) runs up
\* to confirm(), which the student answers.
SubmitClick(confirmed) ==
    /\ dialog = NoDialog
    /\ OnlineView
    /\ isLast
    /\ ~submitting
    /\ dialog' = Answered(ConfirmSubmit, confirmed)
    /\ UNCHANGED <<mounted, fetching, timer, edits, succeeded, alerts, loadResponse,
                   lastSelected>>
    /\ UNCHANGED ui
    /\ UNCHANGED net
    /\ UNCHANGED parser
    /\ UNCHANGED layout
    /\ UNCHANGED lastPicked

\* Mutant of ManualSubmit: the answer of confirm() is not tested.
ManualSubmitUnconfirmed ==
    /\ dialog # NoDialog
    /\ Val(dialog).text = ConfirmSubmit
    /\ dialog' = NoDialog
    /\ submitting' = TRUE
    /\ sent' = Append(sent, OnlineRequest(FALSE, Val(exam), answers))
    /\ pending' = pending \cup {Len(sent) + 1}
    /\ UNCHANGED <<mounted, fetching, exam, loading, error, currentQuestionIdx, timeLeft,
                   answers, bulkFiles, timer, navigated, failures, edits, succeeded,
                   alerts, loadResponse, lastSelected>>
    /\ UNCHANGED parser
    /\ UNCHANGED layout
    /\ UNCHANGED lastPicked

\* handleSubmit(false) from the return of confirm().
ManualSubmit ==
    /\ dialog # NoDialog
    /\ Val(dialog).text = ConfirmSubmit
    /\ dialog' = NoDialog
    /\ IF Val(dialog).answer
       THEN /\ submitting' = TRUE
            /\ sent' = Append(sent, OnlineRequest(FALSE, Val(exam), answers))
            /\ pending' = pending \cup {Len(sent) + 1}
       ELSE UNCHANGED <<submitting, sent, pending>>
    /\ UNCHANGED <<mounted, fetching, exam, loading, error, currentQuestionIdx, timeLeft,
                   answers, bulkFiles, timer, navigated, failures, edits, succeeded,
                   alerts, loadResponse, lastSelected>>
    /\ UNCHANGED parser
    /\ UNCHANGED layout
    /\ UNCHANGED lastPicked

\* handleBulkFileChange, from the answer-sheet input of the offline view.
BulkFileChange(files) ==
    /\ dialog = NoDialog
    /\ OfflineView
    /\ bulkFiles' = files
    /\ UNCHANGED <<mounted, fetching, exam, loading, error, submitting, currentQuestionIdx,
                   timeLeft, answers, timer, edits, succeeded, alerts, loadResponse>>
    /\ UNCHANGED net
    /\ UNCHANGED parser
    /\ UNCHANGED layout
    /\ UNCHANGED lastPicked
    /\ UNCHANGED <<dialog, lastSelected>>

\* The Submit All Pages button: handleBulkSubmit runs up to confirm(), which the
\* student answers.
BulkSubmitClick(confirmed) ==
    /\ dialog = NoDialog
    /\ OfflineView
    /\ ~(submitting \/ Len(bulkFiles) = 0)
    /\ IF Len(bulkFiles) = 0
       THEN /\ alerts' = Append(alerts, NoSheetAlert)
            /\ UNCHANGED dialog
       ELSE /\ dialog' = Answered(ConfirmBulk, confirmed)
            /\ UNCHANGED alerts
    /\ UNCHANGED <<mounted, fetching, timer, edits, succeeded, loadResponse, lastSelected>>
    /\ UNCHANGED ui
    /\ UNCHANGED net
    /\ UNCHANGED parser
    /\ UNCHANGED layout
    /\ UNCHANGED lastPicked

\* Mutant of BulkSubmit: the answer of confirm() is not tested.
BulkSubmitUnconfirmed ==
    /\ dialog # NoDialog
    /\ Val(dialog).text = ConfirmBulk
    /\ dialog' = NoDialog
    /\ submitting' = TRUE
    /\ sent' = Append(sent, BulkRequest(bulkFiles))
    /\ pending' = pending \cup {Len(sent) + 1}
    /\ UNCHANGED <<mounted, fetching, exam, loading, error, currentQuestionIdx, timeLeft,
                   answers, bulkFiles, timer, navigated, failures, edits, succeeded,
                   alerts, loadResponse, lastSelected>>
    /\ UNCHANGED parser
    /\ UNCHANGED layout
    /\ UNCHANGED lastPicked

\* handleBulkSubmit from the return of confirm().
BulkSubmit ==
    /\ dialog # NoDialog
    /\ Val(dialog).text = ConfirmBulk
    /\ dialog' = NoDialog
    /\ IF Val(dialog).answer
       THEN /\ submitting' = TRUE
            /\ sent' = Append(sent, BulkRequest(bulkFiles))
            /\ pending' = pending \cup {Len(sent) + 1}
       ELSE UNCHANGED <<submitting, sent, pending>>
    /\ UNCHANGED <<mounted, fetching, exam, loading, error, currentQuestionIdx, timeLeft,
                   answers, bulkFiles, timer, navigated, failures, edits, succeeded,
                   alerts, loadResponse, lastSelected>>
    /\ UNCHANGED parser
    /\ UNCHANGED layout
    /\ UNCHANGED lastPicked

\* await api.post(...) resolves: router.push to the results view.
RequestSuccess(i) ==
    /\ dialog = NoDialog
    /\ i \in pending
    /\ pending' = pending \ {i}
    /\ navigated' = TRUE
    /\ succeeded' = succeeded \cup {i}
    /\ UNCHANGED <<sent, failures>>
    /\ UNCHANGED <<mounted, fetching, timer, edits, alerts, loadResponse>>
    /\ UNCHANGED ui
    /\ UNCHANGED parser
    /\ UNCHANGED layout
    /\ UNCHANGED lastPicked
    /\ UNCHANGED <<dialog, lastSelected>>

\* Mutant of RequestFailure: the catch branch forgets setSubmitting(false).
RequestFailureKeepsSubmitting(i) ==
    /\ dialog = NoDialog
    /\ i \in pending
    /\ failures < MaxFailures
    /\ pending' = pending \ {i}
    /\ failures' = failures + 1
    /\ alerts' = Append(alerts, SubmissionFailedAlert)
    /\ UNCHANGED <<sent, navigated>>
    /\ UNCHANGED <<mounted, fetching, exam, loading, error, submitting, currentQuestionIdx,
                   timeLeft, answers, bulkFiles, timer, edits, succeeded, loadResponse>>
    /\ UNCHANGED parser
    /\ UNCHANGED layout
    /\ UNCHANGED lastPicked
    /\ UNCHANGED <<dialog, lastSelected>>

\* Mutant of RequestFailure: the catch branch also calls router.push.
RequestFailureNavigates(i) ==
    /\ dialog = NoDialog
    /\ i \in pending
    /\ failures < MaxFailures
    /\ pending' = pending \ {i}
    /\ failures' = failures + 1
    /\ alerts' = Append(alerts, SubmissionFailedAlert)
    /\ submitting' = (IF mounted THEN FALSE ELSE submitting)
    /\ navigated' = TRUE
    /\ UNCHANGED <<mounted, fetching, exam, loading, error, currentQuestionIdx, timeLeft,
                   answers, bulkFiles, timer, edits, succeeded, loadResponse, sent>>
    /\ UNCHANGED parser
    /\ UNCHANGED layout
    /\ UNCHANGED lastPicked
    /\ UNCHANGED <<dialog, lastSelected>>

\* Mutant of RequestFailure: the catch branch swallows the error without an alert.
RequestFailureSilent(i) ==
    /\ dialog = NoDialog
    /\ i \in pending
    /\ failures < MaxFailures
    /\ pending' = pending \ {i}
    /\ failures' = failures + 1
    /\ submitting' = (IF mounted THEN FALSE ELSE submitting)
    /\ UNCHANGED <<mounted, fetching, exam, loading, error, currentQuestionIdx, timeLeft,
                   answers, bulkFiles, timer, edits, succeeded, loadResponse, sent,
                   navigated, alerts>>
    /\ UNCHANGED parser
    /\ UNCHANGED layout
    /\ UNCHANGED lastPicked
    /\ UNCHANGED <<dialog, lastSelected>>

\* await api.post(...) rejects: the catch branch, alert and setSubmitting(false).
RequestFailure(i) ==
    /\ dialog = NoDialog
    /\ i \in pending
    /\ failures < MaxFailures
    /\ pending' = pending \ {i}
    /\ failures' = failures + 1
    /\ alerts' = Append(alerts, SubmissionFailedAlert)
    /\ submitting' = (IF mounted THEN FALSE ELSE submitting)
    /\ UNCHANGED <<sent, navigated>>
    /\ UNCHANGED <<mounted, fetching, exam, loading, error, currentQuestionIdx, timeLeft,
                   answers, bulkFiles, timer, edits, succeeded, loadResponse>>
    /\ UNCHANGED parser
    /\ UNCHANGED layout
    /\ UNCHANGED lastPicked
    /\ UNCHANGED <<dialog, lastSelected>>

\* The page unmounts (the navigation completes, or the student leaves): the cleanup
\* of the timer effect clears the interval.
Unmount ==
    /\ dialog = NoDialog
    /\ mounted
    /\ mounted' = FALSE
    /\ timer' = Null
    /\ UNCHANGED <<fetching, edits, succeeded, alerts, loadResponse>>
    /\ UNCHANGED ui
    /\ UNCHANGED net
    /\ UNCHANGED parser
    /\ UNCHANGED layout
    /\ UNCHANGED lastPicked
    /\ UNCHANGED <<dialog, lastSelected>>

Next ==
    \/ \E e \in Exams : LoadSuccess(e)
    \/ \E s \in LoadStatuses, d \in LoadDetails : LoadFailure(s, d)
    \/ Tick(1)
    \/ \E t \in Texts : TextChange(t)
    \/ \E opt \in Range(QuestionOptions) : SelectOption(opt)
    \/ \E fs \in FileSelections : FileChange(fs)
    \/ Previous
    \/ NextQuestion
    \/ \E c \in BOOLEAN : SubmitClick(c)
    \/ ManualSubmit
    \/ \E fs \in BulkSelections : BulkFileChange(fs)
    \/ \E c \in BOOLEAN : BulkSubmitClick(c)
    \/ BulkSubmit
    \/ \E i \in 1..Len(sent) : RequestSuccess(i)
    \/ \E i \in 1..Len(sent) : RequestFailure(i)
    \/ Unmount

Spec == Init /\ [][Next]_vars

\* The same page in a build where React invokes updater functions twice.
NextStrictMode ==
    \/ Next
    \/ Tick(2)

SpecStrictMode == Init /\ [][NextStrictMode]_vars

\* ------------------------------------------- parseQuestionText, inputs
\* The question texts parsed: every concatenation of at most MaxFragments
\* fragments, and every text the backend composes from a prompt and options.
MaxFragments == 4
MarkerHead == SubSeq(Marker, 1, Len(Marker) - 1)
Fragments == {<<"a">>, <<" ">>, <<"-">>, Bullet, <<NL>>, Marker, MarkerHead}

RECURSIVE Concat(_)
Concat(ss) == IF ss = <<>> THEN <<>> ELSE Head(ss) \o Concat(Tail(ss))

FreeTexts ==
    {Concat(fs) : fs \in UNION {[1..n -> Fragments] : n \in 0..MaxFragments}}

Prompts == {<<>>, <<"a">>, <<"a", NL>>, <<"a", " ", "a">>, MarkerHead,
            <<"a">> \o MarkerHead, <<"a">> \o Marker \o <<"a">>}
OptionTexts == {<<"a">>, <<"b">>, <<"a", " ", "b">>, <<"-", " ", "a">>, <<"-">>}
OptionLists == UNION {[1..n -> OptionTexts] : n \in 1..2}

ComposedTexts == {Compose(q, os) : q \in Prompts, os \in OptionLists}
ParseInputs == FreeTexts \cup ComposedTexts

ParseInit ==
    /\ PageInit
    /\ LayoutIdle
    /\ token = TRUE
    /\ parseText \in ParseInputs
    /\ parsed = Null

\* One call of parseQuestionText.
Parse ==
    /\ parsed = Null
    /\ parsed' = Some(parseQuestionText(parseText))
    /\ UNCHANGED parseText
    /\ UNCHANGED page
    /\ UNCHANGED layout

ParseNext == Parse

ParseSpec == ParseInit /\ [][ParseNext]_vars

\* --------------------------------------------------------- DashboardLayout
MaxMounts == 2
UnauthorizedStatus == 401
\* The dashboard routes the layout wraps, and a public page outside it.
DashboardRoutes == {"/dashboard/student", "/dashboard/student/courses",
                    "/dashboard/student/results", "/dashboard/teacher",
                    "/dashboard/teacher/exams"}
HomePath == "/"
Roles == {"teacher", "student"}
\* Why GET /me fails: a status of the service, or 0 for no response at all.
MeFailureStatuses == {UnauthorizedStatus, ForbiddenStatus, 500, 0}

LayoutInit ==
    /\ PageInit
    /\ ParserIdle
    /\ LayoutIdle
    /\ token \in BOOLEAN

\* The browser enters the dashboard: the layout mounts with role null and its effect
\* calls checkAuth, which issues GET /me.
LayoutMount(route) ==
    /\ ~layoutMounted
    /\ mounts < MaxMounts
    /\ layoutMounted' = TRUE
    /\ pathname' = route
    /\ role' = Null
    /\ mounts' = mounts + 1
    /\ mePending' = mePending \cup {mounts + 1}
    /\ UNCHANGED <<token, meSucceeded, meFailed>>
    /\ UNCHANGED page
    /\ UNCHANGED parser

\* A link inside the dashboard: the layout stays mounted, its effect does not rerun.
LayoutNavigate(route) ==
    /\ layoutMounted
    /\ pathname # route
    /\ pathname' = route
    /\ UNCHANGED <<layoutMounted, token, role, mounts, mePending, meSucceeded, meFailed>>
    /\ UNCHANGED page
    /\ UNCHANGED parser

\* The browser leaves the dashboard for a public page: the layout unmounts.
LayoutLeave ==
    /\ layoutMounted
    /\ layoutMounted' = FALSE
    /\ pathname' = HomePath
    /\ UNCHANGED <<token, role, mounts, mePending, meSucceeded, meFailed>>
    /\ UNCHANGED page
    /\ UNCHANGED parser

\* await api.get("/me") resolves for the mount k: setRole(res.data.role), which
\* has an effect only on the instance that issued it while it is mounted.
MeSuccess(k, r) ==
    /\ k \in mePending
    /\ mePending' = mePending \ {k}
    /\ meSucceeded' = meSucceeded \cup {k}
    /\ role' = (IF layoutMounted /\ k = mounts THEN Some(r) ELSE role)
    /\ UNCHANGED <<layoutMounted, pathname, token, mounts, meFailed>>
    /\ UNCHANGED page
    /\ UNCHANGED parser

\* Mutant of MeFailure: checkAuth has no catch, only the 401 interceptor redirects.
MeFailureInterceptorOnly(k, status) ==
    /\ k \in mePending
    /\ meFailed' = meFailed \cup {k}
    /\ IF status = UnauthorizedStatus
       THEN /\ token' = FALSE
            /\ pathname' = LoginPath
            /\ layoutMounted' = FALSE
            /\ mePending' = (IF pathname # LoginPath THEN {} ELSE mePending \ {k})
       ELSE /\ mePending' = mePending \ {k}
            /\ UNCHANGED <<token, pathname, layoutMounted>>
    /\ UNCHANGED <<role, mounts, meSucceeded>>
    /\ UNCHANGED page
    /\ UNCHANGED parser

\* await api.get("/me") rejects for the mount k.  The response interceptor first:
\* on 401 it removes the token and, unless already on the login page, assigns
\* window.location.href, which unloads the document and its other requests.  Then
\* the catch of checkAuth: router.push("/login").
MeFailure(k, status) ==
    /\ k \in mePending
    /\ meFailed' = meFailed \cup {k}
    /\ token' = (IF status = UnauthorizedStatus THEN FALSE ELSE token)
    /\ mePending' = (IF status = UnauthorizedStatus /\ pathname # LoginPath
                     THEN {} ELSE mePending \ {k})
    /\ pathname' = LoginPath
    /\ layoutMounted' = FALSE
    /\ UNCHANGED <<role, mounts, meSucceeded>>
    /\ UNCHANGED page
    /\ UNCHANGED parser

LayoutNext ==
    \/ \E route \in DashboardRoutes : LayoutMount(route)
    \/ \E route \in DashboardRoutes : LayoutNavigate(route)
    \/ LayoutLeave
    \/ \E k \in 1..mounts, r \in Roles : MeSuccess(k, r)
    \/ \E k \in 1..mounts, status \in MeFailureStatuses : MeFailure(k, status)

LayoutSpec == LayoutInit /\ [][LayoutNext]_vars

\* ------------------------------------------------------------------ claims

AutoRequests == {i \in 1..Len(sent) : sent[i].auto}
ManualRequests == {i \in 1..Len(sent) : ~sent[i].auto}
\* The requests issued by the step from the current state to the next.
NewRequests == IF Len(sent') > Len(sent) THEN (Len(sent) + 1)..Len(sent') ELSE {}
\* The step is the tick on which the countdown expires.
ExpiryStep == timeLeft # Null /\ timeLeft' = Some(0) /\ timeLeft # Some(0)
\* The step is a failed submission response.
FailureStep == failures' = failures + 1
DurationPositive == exam # Null /\ Val(exam).duration_minutes > 0

\* C1: when the countdown expires while a manual handleSubmit(false) request is
\* still in flight, the expiry issues no request (the second trigger is a no-op).
C1_ExpiryDuringManualIsNoOp ==
    [][(ExpiryStep /\ \E i \in pending : ~sent[i].auto /\ sent[i].endpoint = OnlineEndpoint)
        => sent' = sent]_vars

\* C2: in a session of positive duration without any manual submission, once the
\* countdown has reached 0 the auto-submit path has run exactly once.
C2_AutoSubmitExactlyOnce ==
    (DurationPositive /\ timeLeft = Some(0) /\ ManualRequests = {})
        => Cardinality(AutoRequests) = 1

\* C3: timeLeft starts at duration_minutes * 60 when the load succeeds, every change
\* of it afterwards is a decrement by exactly 1 from a value >= 1, it is never
\* negative, and 0 is absorbing.
C3_CountdownMonotone ==
    [][/\ (timeLeft' # Null => Val(timeLeft') >= 0)
       /\ (timeLeft = Null /\ timeLeft' # Null
             => exam' # Null /\ Val(timeLeft') = Val(exam').duration_minutes * 60)
       /\ (timeLeft # Null
             => /\ timeLeft' # Null
                /\ \/ timeLeft' = timeLeft
                   \/ Val(timeLeft) >= 1 /\ Val(timeLeft') = Val(timeLeft) - 1)
       /\ (timeLeft = Some(0) => timeLeft' = Some(0))]_vars

\* C3 witness: a countdown of positive duration has run down to 0.
C3_Witness == DurationPositive /\ timeLeft = Some(0)

\* C4: every request to /submissions/submit carries exactly one answer entry per
\* question of the exam, in exam order, with that question's id.
C4_PayloadHasEveryQuestion ==
    \A i \in 1..Len(sent) :
        sent[i].endpoint = OnlineEndpoint
            => /\ Len(sent[i].answers) = NumQuestions
               /\ \A k \in 1..NumQuestions :
                    sent[i].answers[k].question_id = Val(exam).questions[k].id

\* C4 witness: a two-question exam was submitted with a draft for the first question
\* only.
C4_Witness ==
    /\ exam # Null
    /\ NumQuestions = 2
    /\ Len(sent) = 1
    /\ sent[1].endpoint = OnlineEndpoint
    /\ answers[QuestionIdOf(1)] # Null
    /\ answers[QuestionIdOf(2)] = Null
    /\ edits = 1

C6_ZeroDurationAutoSubmits ==
    (exam # Null /\ Val(exam).duration_minutes = 0) => Cardinality(AutoRequests) = 1

\* C7: the payload of a timer-triggered request is built from the answers store as
\* it is when the countdown expires.
C7_AutoSubmitReadsCurrentDrafts ==
    [][\A i \in NewRequests :
         sent'[i].auto => sent'[i].answers = PayloadAnswers(Val(exam), answers)]_vars

\* C8: for an offline exam every request issued goes to the bulk-offline endpoint.
C8_OfflineNeverSendsOnlinePayload ==
    (exam # Null /\ Val(exam).mode = "offline")
        => \A i \in 1..Len(sent) : sent[i].endpoint = BulkEndpoint

\* C9: while a manual submission is in flight, and after the page has unmounted, no
\* tick changes timeLeft and no expiry issues a request.
C9_TickCancelledOnManualSubmit ==
    [][((\E i \in pending : ~sent[i].auto) \/ ~mounted)
        => (timeLeft' = timeLeft /\ \A i \in NewRequests : ~sent'[i].auto)]_vars

\* C10: at most one submission request is in flight.
C10_AtMostOneInFlight == Cardinality(pending) <= 1

\* C11: once a submission request has succeeded, no step issues another request.
C11_NoRequestAfterSuccess == [][succeeded # {} => sent' = sent]_vars

\* C12: the page has navigated to the results only if some submission request has
\* succeeded, and a failed response leaves the navigation as it was.
C12_NavigateOnlyAfterSuccess == navigated => succeeded # {}

C12_Witness ==
    /\ navigated
    /\ failures > 0
    /\ \E i \in succeeded : i > 1

\* C13: the tick on which the countdown expires while no submission is in flight
\* sets submitting and issues exactly one automatic request.
C13_ExpirySendsWhenIdle ==
    [][(ExpiryStep /\ pending = {} /\ ~navigated)
        => /\ submitting'
           /\ Len(sent') = Len(sent) + 1
           /\ sent'[Len(sent')].auto]_vars

C15_LoadFailureTerminal ==
    loadResponse # Null
        => /\ exam = Null
           /\ timeLeft = Null
           /\ timer = Null
           /\ ~Rendered
           /\ sent = <<>>

C15_Witness == loadResponse # Null /\ error # Null /\ ~loading /\ mounted

\* C16: the error shown after a 403 is the detail of the response, or "Access
\* Denied" when the response carries no (or an empty) detail; after any other
\* failure it is "Failed to load exam.".
C16_LoadErrorMessages ==
    error # Null
        => /\ loadResponse # Null
           /\ LET r == Val(loadResponse)
                  given == r.detail # Null /\ Val(r.detail) # ""
              IN  /\ (r.status = ForbiddenStatus /\ given) => error = r.detail
                  /\ (r.status = ForbiddenStatus /\ ~given) => error = Some("Access Denied")
                  /\ r.status # ForbiddenStatus => error = Some("Failed to load exam.")

C16_Witness ==
    /\ error = Some("Failed to load exam.")
    /\ loadResponse # Null
    /\ Val(loadResponse).detail = Some("Not enrolled")

\* C17: whenever the countdown is set, a timer is registered or the exam is
\* rendered, the exam is loaded and loading is false.
C17_LoadBeforeTimerAndRender ==
    (timeLeft # Null \/ timer # Null \/ Rendered) => (exam # Null /\ ~loading)

C17_Witness ==
    /\ Rendered
    /\ timer # Null
    /\ timeLeft # Null
    /\ Val(timeLeft) < InitialTimeLeft(Val(exam))

Contains(s, sep) == IndexOf(s, sep) # 0
\* The text that follows the first occurrence of the marker.
AfterFirstMarker(text) ==
    SubSeq(text, IndexOf(text, Marker) + Len(Marker), Len(text))
BeforeFirstMarker(text) == SubSeq(text, 1, IndexOf(text, Marker) - 1)
EndsWith(s, suffix) ==
    Len(s) >= Len(suffix) /\ OccursAt(s, suffix, Len(s) - Len(suffix) + 1)
MCQ(questionText, options) ==
    [isMCQ |-> TRUE, questionText |-> questionText, options |-> options]
Plain(text) == [isMCQ |-> FALSE, questionText |-> text, options |-> <<>>]

\* C18 as claimed: a text composed from a prompt without the marker and option
\* lines parses back to that prompt and those options, and a text without the
\* marker parses to itself, not an MCQ.
C18_RoundTripAnyPrompt ==
    parsed # Null
        => /\ \A q \in Prompts, os \in OptionLists :
                (~Contains(q, Marker) /\ parseText = Compose(q, os))
                    => Val(parsed) = MCQ(q, os)
           /\ ~Contains(parseText, Marker)
                => (~Val(parsed).isMCQ /\ Val(parsed).questionText = parseText)

\* C18 amended: the same for a prompt that neither contains the marker nor ends
\* with the marker less its last newline.
C18_RoundTrip ==
    parsed # Null
        => /\ \A q \in Prompts, os \in OptionLists :
                (/\ ~Contains(q, Marker)
                 /\ ~EndsWith(q, MarkerHead)
                 /\ parseText = Compose(q, os))
                    => Val(parsed) = MCQ(q, os)
           /\ ~Contains(parseText, Marker)
                => (~Val(parsed).isMCQ /\ Val(parsed).questionText = parseText)

C18_Witness ==
    /\ parsed # Null
    /\ parseText = Compose(<<"a", NL>>, << <<"a", " ", "b">>, <<"-", " ", "a">> >>)
    /\ Val(parsed).isMCQ

\* C19: for a text with the marker the options are those of everything after the
\* first marker, and the question text of an MCQ is the text before it.
C19_SplitsOnFirstMarker ==
    (parsed # Null /\ Contains(parseText, Marker))
        => /\ Val(parsed).options = ParseOptions(AfterFirstMarker(parseText))
           /\ Val(parsed).isMCQ
                => Val(parsed).questionText = BeforeFirstMarker(parseText)

\* C20: a text with the marker after which no line is an option parses to the
\* whole text, not an MCQ, with no options.
C20_NoOptionsIsNotMCQ ==
    (/\ parsed # Null
     /\ Contains(parseText, Marker)
     /\ ParseOptions(AfterFirstMarker(parseText)) = <<>>)
        => Val(parsed) = Plain(parseText)

C20_Witness ==
    /\ parsed # Null
    /\ parseText = <<"a">> \o Marker \o <<"-", "a">>
    /\ ~Val(parsed).isMCQ

\* The step in which handleSubmit(false) posts its request.
ManualSendStep ==
    /\ dialog # NoDialog
    /\ Val(dialog).text = ConfirmSubmit
    /\ Len(sent') = Len(sent) + 1
Q1 == QuestionIdOf(1)
Q2 == QuestionIdOf(2)
ScenarioAnswers ==
    <<[question_id |-> Q1, answer_text |-> Hello, answer_file_path |-> Null],
      [question_id |-> Q2, answer_text |-> OptionY, answer_file_path |-> Null]>>
\* The first request of the session is the manual one of the scenario, none failed.
ScenarioSubmitted ==
    /\ Len(sent) >= 1
    /\ ~sent[1].auto
    /\ sent[1].answers = ScenarioAnswers
    /\ failures = 0

\* C21: in the two-question online exam, a confirmed submit with Q1 set to "hello"
\* and Y selected on Q2 sends the answers (Q1, "hello"), (Q2, "Y") in that order;
\* it stays the only request, and the page navigates only on its success.
C21_OnlineScenario ==
    [][/\ (/\ ManualSendStep
           /\ sent = <<>>
           /\ NumQuestions = 2
           /\ AnswerText(answers, Q1) = Hello
           /\ AnswerText(answers, Q2) = OptionY)
          => sent'[1].answers = ScenarioAnswers
       /\ ScenarioSubmitted' => (Len(sent') = 1 /\ (navigated' => succeeded' = {1}))]_vars

\* C22: every entry of a manual online request carries the text of the question's
\* draft, and carries no file exactly when the draft has no file attached.
C22_PayloadSnapshotsDraft ==
    [][ManualSendStep
        => \A k \in 1..Len(sent'[Len(sent')].answers) :
             LET entry == sent'[Len(sent')].answers[k]
                 draft == DraftOf(answers, entry.question_id)
             IN  /\ entry.answer_text = AnswerText(answers, entry.question_id)
                 /\ (entry.answer_file_path = Null) <=> (draft.file = Null)]_vars

\* C23: the mount of the dashboard layout issues GET /me, a failed GET /me leaves
\* the browser on /login, and the role is set only by a successful GET /me.
C23_SessionGate ==
    [][/\ (~layoutMounted /\ layoutMounted')
            => (mounts' \notin mePending /\ mePending' = mePending \cup {mounts'})
       /\ meFailed' # meFailed => pathname' = LoginPath
       /\ (role' # role /\ role' # Null) => meSucceeded' # meSucceeded]_vars

\* The first mount got its role; the second failed with a status other than 401.
C23_Witness ==
    /\ meSucceeded = {1}
    /\ meFailed = {2}
    /\ token
    /\ pathname = LoginPath
    /\ ~layoutMounted

\* C24: a draft edit changes the draft of the displayed question only: a text edit
\* keeps its file, a file edit keeps its text and stores the file just picked in
\* place of any earlier one, and exam, timeLeft, submitting and currentQuestionIdx
\* are unchanged.
C24_DraftEditFrame ==
    [][edits' # edits
        => LET old == DraftOf(answers, CurrentQuestionId)
               new == DraftOf(answers', CurrentQuestionId)
           IN  /\ \A q \in QuestionIds \ {CurrentQuestionId} : answers'[q] = answers[q]
               /\ answers'[CurrentQuestionId] # Null
               /\ \/ /\ UNCHANGED lastPicked
                     /\ new.file = old.file
                     /\ new.text # Null
                  \/ /\ new.text = old.text
                     /\ new.file # Null
                     /\ new.file = lastPicked'[CurrentQuestionId]
               /\ UNCHANGED <<exam, timeLeft, submitting, currentQuestionIdx>>]_vars

\* The file of the first question was replaced by another one.
C24_Witness ==
    /\ OnlineView
    /\ NumQuestions = 2
    /\ answers[Q1] = Some([text |-> Null, file |-> Some("f2")])
    /\ lastPicked[Q1] = Some("f2")
    /\ answers[Q2] = Null

\* C25: handleSubmit(false) whose confirmation was declined sends no request and
\* leaves submitting, answers, timeLeft, currentQuestionIdx and the timer as they
\* are; one that sends a request was confirmed.
C25_DeclinedSubmitIsNoOp ==
    [][/\ (dialog # NoDialog /\ Val(dialog).text = ConfirmSubmit)
          => /\ ~Val(dialog).answer
                => UNCHANGED <<sent, pending, submitting, answers, timeLeft,
                               currentQuestionIdx, timer>>
             /\ sent' # sent => Val(dialog).answer
       /\ \A i \in NewRequests :
            (sent'[i].endpoint = OnlineEndpoint /\ ~sent'[i].auto)
                => dialog = Answered(ConfirmSubmit, TRUE)]_vars

\* confirm() was answered with Cancel one second before the expiry, the interval
\* still installed.
C25_Witness ==
    /\ dialog = Answered(ConfirmSubmit, FALSE)
    /\ timer # Null
    /\ timeLeft = Some(1)

\* C26: the Submit Exam click is taken, and the manual request is sent, only with
\* the last question displayed and submitting false.
C26_SubmitOnlyOnLastQuestion ==
    [][((dialog = NoDialog /\ dialog' # NoDialog /\ Val(dialog').text = ConfirmSubmit)
         \/ ManualSendStep)
        => (currentQuestionIdx = NumQuestions - 1 /\ ~submitting)]_vars

C26_Witness ==
    /\ OnlineView
    /\ NumQuestions = 2
    /\ currentQuestionIdx = 1
    /\ Len(sent) = 1
    /\ ~sent[1].auto

\* C27: the draft text of an MCQ question of an online exam is empty while no option
\* has been selected, and afterwards is the option selected last, one of the
\* parsed options.
C27_McqDraftIsSelectedOption ==
    (exam # Null /\ ~isOffline)
        => \A k \in 1..NumQuestions :
             LET q == Val(exam).questions[k]
                 p == parseQuestionText(q.text)
             IN  p.isMCQ
                   => IF lastSelected[q.id] = Null
                      THEN AnswerText(answers, q.id) = <<>>
                      ELSE /\ AnswerText(answers, q.id) = Val(lastSelected[q.id])
                           /\ AnswerText(answers, q.id) \in Range(p.options)

\* X was selected, then Y.
C27_Witness ==
    /\ OnlineView
    /\ edits = 2
    /\ lastSelected[Q2] = Some(OptionY)
    /\ answers[Q2] = Some([text |-> Some(OptionY), file |-> Null])
    /\ sent = <<>>

\* C28: every bulk request carries at least one file, namely the files selected
\* when it was sent, and a declined confirmation sends nothing and leaves
\* submitting and bulkFiles as they are.
C28_BulkSubmitNeedsPages ==
    [][/\ \A i \in NewRequests :
            sent'[i].endpoint = BulkEndpoint
                => (Len(sent'[i].files) >= 1 /\ sent'[i].files = bulkFiles)
       /\ (dialog # NoDialog /\ Val(dialog).text = ConfirmBulk)
            => /\ ~Val(dialog).answer => UNCHANGED <<sent, pending, submitting, bulkFiles>>
               /\ sent' # sent => Val(dialog).answer]_vars

C28_Witness ==
    /\ OfflineView
    /\ Len(sent) = 1
    /\ sent[1].files = <<"p1", "p2">>
    /\ failures = 0

\* C29: in the online view currentQuestionIdx is within 0..N-1, and a step changes
\* it by exactly one.
C29_NavigationInRange ==
    [][OnlineView'
        => /\ currentQuestionIdx' \in 0..(NumQuestions' - 1)
           /\ currentQuestionIdx' # currentQuestionIdx
                => \/ currentQuestionIdx' = currentQuestionIdx + 1
                   \/ currentQuestionIdx' = currentQuestionIdx - 1]_vars

\* Next, then Previous.
C29_Witness ==
    /\ OnlineView
    /\ NumQuestions = 2
    /\ currentQuestionIdx = 0
    /\ answers[Q2] # Null

\* C30: submitting is true while a request is in flight, and it goes from true to
\* false only on a failed response that leaves no request in flight.
C30_SubmittingTracksInFlight ==
    [][/\ pending' # {} => submitting'
       /\ (submitting /\ ~submitting') => (FailureStep /\ pending' = {})]_vars

====
